---- MODULE Spec2Model ----
(***************************************************************************)
(* The Mandelbrot renderer of src/src/main.rs: the vector escape-time      *)
(* kernel (mandelbrot_vector), the per-band pixel loop (render), the band  *)
(* scheduler (render_parallel) and the part of main's loop that takes the  *)
(* buffer lock (overlay draw, re-render on a key, display).                *)
(*                                                                         *)
(* Numbers.  f32 and f64 values are modelled on one fixed-point grid of    *)
(* 1/Scale: a value v is the integer v*Scale, and every multiplication and *)
(* division rounds its result to the grid, as every floating-point         *)
(* operation rounds to its format.  The kernel's f32 range is [-Huge,Huge];*)
(* a result outside it is NonFinite, which stands for inf and NaN alike    *)
(* (both compare false under lt(4.0) and both stay non-finite under the    *)
(* kernel's arithmetic).  Inputs on the half-integer grid are exact in     *)
(* both the model and f32 for the first three iterations.                  *)
(***************************************************************************)
EXTENDS Integers, Sequences, FiniteSets, TLC

(* ------------------------------ bounds -------------------------------- *)

LaneGroups == 1

MaxHeight == 4

MaxThreads == 3

MaxIter == 3

(* ------------------------- program constants -------------------------- *)

Lanes == 4

PaletteCycle == 12

WIDTH == Lanes * LaneGroups

LIMIT == MaxIter

COLORS == << <<0, 7, 100>>, <<32, 107, 203>>, <<237, 255, 255>>,
             <<255, 170, 0>>, <<0, 2, 0>> >>

(* ------------------------ fixed-point numbers ------------------------- *)

Scale == 2^8

Huge == 127 * Scale

NonFinite == 2^20

Abs(v) == IF v < 0 THEN -v ELSE v

RoundDiv(n, d) == (2 * n + d) \div (2 * d)

FMul(a, b) == RoundDiv(a * b, Scale)

FDiv(a, b) == IF b < 0 THEN RoundDiv((-a) * Scale, -b) ELSE RoundDiv(a * Scale, b)

Sat(v) == IF Abs(v) > Huge THEN NonFinite ELSE v

SMul(a, b) == IF a = NonFinite \/ b = NonFinite THEN NonFinite ELSE Sat(FMul(a, b))

SAdd(a, b) == IF a = NonFinite \/ b = NonFinite THEN NonFinite ELSE Sat(a + b)

SSub(a, b) == IF a = NonFinite \/ b = NonFinite THEN NonFinite ELSE Sat(a - b)

Lt(a, b) == a # NonFinite /\ b # NonFinite /\ a < b

Gt(a, b) == a # NonFinite /\ b # NonFinite /\ a > b

Four == 4 * Scale

LaneIdx == 1 .. Lanes

(* -------------------------- pixel_to_point ---------------------------- *)

pixel_to_point(bounds, pixel, upper_left, lower_right) ==
    LET width  == lower_right.re - upper_left.re
        height == upper_left.im - lower_right.im
    IN  [re |-> upper_left.re + FDiv(FMul(pixel[1] * Scale, width), bounds[1] * Scale),
         im |-> upper_left.im - FDiv(FMul(pixel[2] * Scale, height), bounds[2] * Scale)]

(* ------------------------- mandelbrot_vector -------------------------- *)

LaneMask(x, y) == Lt(SAdd(SMul(x, x), SMul(y, y)), Four)

MaskOf(st) ==
    <<LaneMask(st.x[1], st.y[1]), LaneMask(st.x[2], st.y[2]),
      LaneMask(st.x[3], st.y[3]), LaneMask(st.x[4], st.y[4])>>

AnyLane(mask) == \E k \in LaneIdx : mask[k]

AllLanes(mask) == \A k \in LaneIdx : mask[k]

\* The loop leaving as soon as one lane has escaped.
LoopBreaksOnFirstEscape(mask) == ~AllLanes(mask)

LoopBreaks(mask) == ~AnyLane(mask)

KernelStart(c_x, c_y) ==
    [x |-> c_x, y |-> c_y, count |-> <<0, 0, 0, 0>>, c_x |-> c_x, c_y |-> c_y]

LaneCount(st, mask, k) == st.count[k] + (IF mask[k] THEN 1 ELSE 0)

LaneX(st, k) ==
    SAdd(SSub(SMul(st.x[k], st.x[k]), SMul(st.y[k], st.y[k])), st.c_x[k])

LaneY(st, k) ==
    SAdd(SAdd(SMul(st.x[k], st.y[k]), SMul(st.x[k], st.y[k])), st.c_y[k])

KernelIter(st) ==
    LET mask == MaskOf(st)
    IN  [x     |-> <<LaneX(st, 1), LaneX(st, 2), LaneX(st, 3), LaneX(st, 4)>>,
         y     |-> <<LaneY(st, 1), LaneY(st, 2), LaneY(st, 3), LaneY(st, 4)>>,
         count |-> <<LaneCount(st, mask, 1), LaneCount(st, mask, 2),
                     LaneCount(st, mask, 3), LaneCount(st, mask, 4)>>,
         c_x   |-> st.c_x,
         c_y   |-> st.c_y]

RECURSIVE KernelLoop(_, _)
KernelLoop(st, left) ==
    IF left = 0 \/ LoopBreaks(MaskOf(st)) THEN st.count
    ELSE KernelLoop(KernelIter(st), left - 1)

mandelbrot_vector(c_x, c_y, max_iter) == KernelLoop(KernelStart(c_x, c_y), max_iter)

(* ------------------------------ palette ------------------------------- *)

Interp(c1, c2, pNum) == (c1 * PaletteCycle + (c2 - c1) * pNum) \div PaletteCycle

Pack(r, g, b) == r * 65536 + g * 256 + b

PaletteColor(point_k) ==
    LET n     == Len(COLORS)
        valN  == (point_k % PaletteCycle) * n
        left  == (valN \div PaletteCycle) % n
        right == (left + 1) % n
        pNum  == valN - left * PaletteCycle
        c1    == COLORS[left + 1]
        c2    == COLORS[right + 1]
    IN  Pack(Interp(c1[1], c2[1], pNum), Interp(c1[2], c2[2], pNum),
             Interp(c1[3], c2[3], pNum))

(* ------------------------------- render ------------------------------- *)

GroupsPerRow(w) == (w + Lanes - 1) \div Lanes

\* The row loop stopping one row short.
RowsOfSkipLast(height) == height - 1

RowsOf(height) == height

WidthStep(upper_left, lower_right) ==
    FDiv(lower_right.re - upper_left.re, WIDTH * Scale)

HeightStep(upper_left, lower_right, H, T) ==
    FDiv(lower_right.im - upper_left.im, FDiv(H * Scale, T * Scale))

LaneXCoord(upper_left, lower_right, column, k) ==
    (upper_left.re + FMul(WidthStep(upper_left, lower_right), column * Scale))
        + FMul(WidthStep(upper_left, lower_right), k * Scale)

GroupX(upper_left, lower_right, column) ==
    <<LaneXCoord(upper_left, lower_right, column, 0),
      LaneXCoord(upper_left, lower_right, column, 1),
      LaneXCoord(upper_left, lower_right, column, 2),
      LaneXCoord(upper_left, lower_right, column, 3)>>

RowY(upper_left, lower_right, H, T, row) ==
    upper_left.im + FMul(HeightStep(upper_left, lower_right, H, T), row * Scale)

Splat(v) == <<v, v, v, v>>

GroupCounts(upper_left, lower_right, H, T, row, column) ==
    mandelbrot_vector(GroupX(upper_left, lower_right, column),
                      Splat(RowY(upper_left, lower_right, H, T, row)),
                      LIMIT)

GroupColors(upper_left, lower_right, H, T, row, column) ==
    LET points == GroupCounts(upper_left, lower_right, H, T, row, column)
    IN  <<PaletteColor(points[1]), PaletteColor(points[2]),
          PaletteColor(points[3]), PaletteColor(points[4])>>

PixelIndex(w, row, column, k) == row * w + column + (k - 1)

AssertLen(len, band_bounds) == len = band_bounds[1] * band_bounds[2]

\* The store adding to the pixel instead of replacing it.
StoreAccumulate(old, color) == old + color

StorePixel(old, color) == color

(* --------------------------- render_parallel -------------------------- *)

\* The band height as a rounded-up quotient.
RowsPerBandCeil(h, T) == (h + T - 1) \div T

RowsPerBand(h, T) == h \div T + 1

ChunkSize(bounds, T) == RowsPerBand(bounds[2], T) * bounds[1]

NumChunks(len, size) == (len + size - 1) \div size

\* Chunks that share their boundary pixel.
ChunkStartOverlap(i, size) == i * (size - 1)

ChunkStart(i, size) == i * size

ChunkLen(i, len, size) ==
    IF ChunkStart(i, size) + size <= len THEN size ELSE len - ChunkStart(i, size)

BandOf(i, len, bounds, T, upper_left, lower_right) ==
    LET size   == ChunkSize(bounds, T)
        blen   == ChunkLen(i, len, size)
        top    == RowsPerBand(bounds[2], T) * i
        height == blen \div bounds[1]
    IN  [start  |-> ChunkStart(i, size),
         len    |-> blen,
         bounds |-> <<bounds[1], height>>,
         ul     |-> pixel_to_point(bounds, <<0, top>>, upper_left, lower_right),
         lr     |-> pixel_to_point(bounds, <<bounds[1], top + height>>,
                                   upper_left, lower_right)]

(* ------------------------------ viewports ----------------------------- *)

Fx(num, den) == RoundDiv(num * Scale, den)

InitialViewport ==
    [ul |-> [re |-> Fx(-22, 10), im |-> Fx(10, 10)],
     lr |-> [re |-> Fx(12, 10),  im |-> Fx(-10, 10)]]

PanRight(v, step) ==
    [ul |-> [re |-> v.ul.re + step, im |-> v.ul.im],
     lr |-> [re |-> v.lr.re + step, im |-> v.lr.im]]

ZoomIn(v, factor) ==
    [ul |-> [re |-> FDiv(v.ul.re, factor), im |-> FDiv(v.ul.im, factor)],
     lr |-> [re |-> FDiv(v.lr.re, factor), im |-> FDiv(v.lr.im, factor)]]

Viewports ==
    {InitialViewport, PanRight(InitialViewport, Fx(1, 2)), ZoomIn(InitialViewport, Fx(2, 1))}

(* -------------------------------- state ------------------------------- *)

VARIABLES
    HEIGHT,        \* the build's HEIGHT
    NUM_THREADS,   \* the build's NUM_THREADS
    inputs,        \* the bounds a caller of render_parallel may pass
    vp,            \* main's upper_left / lower_right
    pc,            \* main thread's position
    retTo,         \* where the running render_parallel call returns to
    lock,          \* GlobalBuffer's mutex
    buf,           \* GlobalBuffer's contents, index j holds pixel j-1
    bounds,        \* render_parallel's bounds argument
    bands,         \* the bands spawned so far in this call
    wpc,           \* each band worker's position
    wpos,          \* each band worker's count of finished column groups
    writers,       \* per pixel, the workers that wrote it in this call
    before,        \* the buffer's contents when this call took the lock
    seen,          \* per viewport, the frame its first completed pass left
    kern           \* the loop state of one mandelbrot_vector call

vars == <<HEIGHT, NUM_THREADS, inputs, vp, pc, retTo, lock, buf, bounds, bands,
          wpc, wpos, writers, before, seen, kern>>

renderVars == <<HEIGHT, NUM_THREADS, inputs, vp, pc, retTo, lock, buf, bounds,
                bands, wpc, wpos, writers, before, seen>>

BufLen == WIDTH * HEIGHT

NumBands == NumChunks(BufLen, ChunkSize(bounds, NUM_THREADS))

OverlayIdx == {1}

OverlayColor == Pack(255, 51, 51)

NoFrame == <<>>

IdleKern == [pc |-> "idle"]

(* ----------------------------- main thread ---------------------------- *)

\* render_parallel, lines 126-128: rows_per_band, the lock, the chunks.
CallRender(b, site) ==
    /\ lock = "free"
    /\ lock' = "render_parallel"
    /\ bounds' = b
    /\ bands' = <<>>
    /\ wpc' = <<>>
    /\ wpos' = <<>>
    /\ writers' = [j \in 1 .. BufLen |-> {}]
    /\ before' = buf
    /\ retTo' = site
    /\ pc' = "spawn"

\* main, line 305.
FirstRender ==
    /\ pc = "init"
    /\ \E b \in inputs : CallRender(b, "loop")
    /\ UNCHANGED <<HEIGHT, NUM_THREADS, inputs, vp, buf, seen, kern>>

\* render_parallel, lines 130-139: one turn of the spawning loop.
SpawnBand ==
    /\ pc = "spawn"
    /\ Len(bands) < NumBands
    /\ bands' = Append(bands, BandOf(Len(bands), BufLen, bounds, NUM_THREADS, vp.ul, vp.lr))
    /\ wpc' = Append(wpc, "ready")
    /\ wpos' = Append(wpos, 0)
    /\ UNCHANGED <<HEIGHT, NUM_THREADS, inputs, vp, pc, retTo, lock, buf, bounds,
                   writers, before, seen, kern>>

\* render_parallel, line 140: the closure ends and the scope starts joining.
ScopeEnd ==
    /\ pc = "spawn"
    /\ Len(bands) = NumBands
    /\ pc' = "join"
    /\ UNCHANGED <<HEIGHT, NUM_THREADS, inputs, vp, retTo, lock, buf, bounds, bands,
                   wpc, wpos, writers, before, seen, kern>>

\* The scope returning without joining.
NoJoin == TRUE

AllFinished == \A i \in 1 .. Len(wpc) : wpc[i] \in {"done", "panicked"}

\* crossbeam::scope joins every spawned thread; a worker's panic is re-raised
\* in the caller, which unwinds past the guard and poisons the mutex.
Join ==
    /\ pc = "join"
    /\ AllFinished
    /\ IF \E i \in 1 .. Len(wpc) : wpc[i] = "panicked"
       THEN pc' = "panicked" /\ lock' = "poisoned"
       ELSE pc' = "returned" /\ lock' = lock
    /\ UNCHANGED <<HEIGHT, NUM_THREADS, inputs, vp, retTo, buf, bounds, bands,
                   wpc, wpos, writers, before, seen, kern>>

\* render_parallel, line 141: the guard is dropped and the call returns.
Return ==
    /\ pc = "returned"
    /\ lock' = "free"
    /\ pc' = retTo
    /\ seen' = IF seen[vp] = NoFrame /\ bounds = <<WIDTH, HEIGHT>>
               THEN [seen EXCEPT ![vp] = buf] ELSE seen
    /\ UNCHANGED <<HEIGHT, NUM_THREADS, inputs, vp, retTo, buf, bounds, bands,
                   wpc, wpos, writers, before, kern>>

\* main, lines 311-328: ImGui::Render calls draw_triangle, which locks the
\* buffer for each pixel it stores (line 193-194).
DrawOverlay ==
    /\ pc = "loop"
    /\ lock = "free"
    /\ \E S \in SUBSET OverlayIdx :
          buf' = [j \in 1 .. BufLen |-> IF j \in S THEN OverlayColor ELSE buf[j]]
    /\ pc' = "keys"
    /\ UNCHANGED <<HEIGHT, NUM_THREADS, inputs, vp, retTo, lock, bounds, bands,
                   wpc, wpos, writers, before, seen, kern>>

\* main, lines 329-351 with a key down: the viewport moves (or stays, for a
\* key the match ignores) and the frame is rendered again.
KeysRender ==
    /\ pc = "keys"
    /\ \E v \in Viewports : vp' = v
    /\ \E b \in inputs : CallRender(b, "display")
    /\ UNCHANGED <<HEIGHT, NUM_THREADS, inputs, buf, seen, kern>>

\* main, lines 329-351 with no key down.
KeysNone ==
    /\ pc = "keys"
    /\ pc' = "display"
    /\ UNCHANGED <<HEIGHT, NUM_THREADS, inputs, vp, retTo, lock, buf, bounds, bands,
                   wpc, wpos, writers, before, seen, kern>>

\* main, line 353: update_with_buffer reads the buffer under the lock.
Display ==
    /\ pc = "display"
    /\ lock = "free"
    /\ pc' = "loop"
    /\ UNCHANGED <<HEIGHT, NUM_THREADS, inputs, vp, retTo, lock, buf, bounds, bands,
                   wpc, wpos, writers, before, seen, kern>>

(* ---------------------------- band workers ---------------------------- *)

\* The stores of one column group: lanes 1 .. n go to first, first + 1, ...
StoreLane(f, first, n, colors, k) ==
    IF k <= n THEN [f EXCEPT ![first + k - 1] = StorePixel(@, colors[k])] ELSE f

StoreLanes(f, first, n, colors) ==
    StoreLane(StoreLane(StoreLane(StoreLane(f, first, n, colors, 1),
                                  first, n, colors, 2), first, n, colors, 3),
              first, n, colors, 4)

MarkLane(f, first, n, i, k) ==
    IF k <= n THEN [f EXCEPT ![first + k - 1] = @ \cup {i}] ELSE f

MarkLanes(f, first, n, i) ==
    MarkLane(MarkLane(MarkLane(MarkLane(f, first, n, i, 1), first, n, i, 2),
                      first, n, i, 3), first, n, i, 4)

GroupTotal(band) == RowsOf(band.bounds[2]) * GroupsPerRow(band.bounds[1])

\* render, line 89: the worker's first step is the length assertion.
WorkerAssert(i) ==
    /\ i \in 1 .. Len(wpc)
    /\ wpc[i] = "ready"
    /\ wpc' = [wpc EXCEPT ![i] =
                  IF ~AssertLen(bands[i].len, bands[i].bounds) THEN "panicked"
                  ELSE IF GroupTotal(bands[i]) = 0 THEN "done"
                  ELSE "running"]
    /\ UNCHANGED <<HEIGHT, NUM_THREADS, inputs, vp, pc, retTo, lock, buf, bounds,
                   bands, wpos, writers, before, seen, kern>>

\* render, lines 101-119: one column group, i.e. one mandelbrot_vector call
\* and the four stores that follow it.  A store past the end of the band's
\* slice panics; the stores before it have happened.
WorkerGroup(i) ==
    /\ i \in 1 .. Len(wpc)
    /\ wpc[i] = "running"
    /\ LET band   == bands[i]
           w      == band.bounds[1]
           row    == wpos[i] \div GroupsPerRow(w)
           column == Lanes * (wpos[i] % GroupsPerRow(w))
           first  == band.start + PixelIndex(w, row, column, 1) + 1
           room   == band.len - PixelIndex(w, row, column, 1)
           stored == IF room >= Lanes THEN Lanes ELSE IF room < 0 THEN 0 ELSE room
       IN  /\ \E colors \in {GroupColors(band.ul, band.lr, HEIGHT, NUM_THREADS, row, column)} :
                 buf' = StoreLanes(buf, first, stored, colors)
           /\ writers' = MarkLanes(writers, first, stored, i)
           /\ wpc' = [wpc EXCEPT ![i] =
                         IF stored # Lanes THEN "panicked"
                         ELSE IF wpos[i] + 1 = GroupTotal(band) THEN "done"
                         ELSE "running"]
           /\ wpos' = [wpos EXCEPT ![i] = IF stored # Lanes THEN @ ELSE @ + 1]
    /\ UNCHANGED <<HEIGHT, NUM_THREADS, inputs, vp, pc, retTo, lock, bounds, bands,
                   before, seen, kern>>

(* -------------------------- the program's runs ------------------------ *)

InitRender ==
    /\ HEIGHT \in 1 .. MaxHeight
    /\ NUM_THREADS \in 1 .. MaxThreads
    /\ vp = InitialViewport
    /\ pc = "init"
    /\ retTo = "loop"
    /\ lock = "free"
    /\ buf = [j \in 1 .. BufLen |-> 0]
    /\ bounds = <<WIDTH, HEIGHT>>
    /\ bands = <<>>
    /\ wpc = <<>>
    /\ wpos = <<>>
    /\ writers = [j \in 1 .. BufLen |-> {}]
    /\ before = buf
    /\ seen = [v \in Viewports |-> NoFrame]

Init ==
    /\ InitRender
    /\ inputs = {<<WIDTH, HEIGHT>>}
    /\ kern = IdleKern

Next ==
    \/ FirstRender
    \/ SpawnBand
    \/ ScopeEnd
    \/ Join
    \/ Return
    \/ DrawOverlay
    \/ KeysRender
    \/ KeysNone
    \/ Display
    \/ \E i \in DOMAIN wpc : WorkerAssert(i)
    \/ \E i \in DOMAIN wpc : WorkerGroup(i)

Spec == Init /\ [][Next]_vars

(* ---------------- render_parallel called with any bounds --------------- *)

\* The matching bounds, and bounds too tall, too wide and too narrow for the buffer.
BoundsInputs ==
    {<<WIDTH, HEIGHT>>, <<WIDTH, HEIGHT + 1>>, <<2 * WIDTH, HEIGHT>>, <<WIDTH \div 2, HEIGHT>>}

InitAnyBounds ==
    /\ InitRender
    /\ inputs = BoundsInputs
    /\ kern = IdleKern

\* A caller that calls render_parallel again once the call has returned.
CallAgain ==
    /\ pc = "loop"
    /\ \E b \in inputs : CallRender(b, "loop")
    /\ UNCHANGED <<HEIGHT, NUM_THREADS, inputs, vp, buf, seen, kern>>

NextAnyBounds ==
    \/ FirstRender
    \/ CallAgain
    \/ SpawnBand
    \/ ScopeEnd
    \/ Join
    \/ Return
    \/ \E i \in DOMAIN wpc : WorkerAssert(i)
    \/ \E i \in DOMAIN wpc : WorkerGroup(i)

SpecAnyBounds == InitAnyBounds /\ [][NextAnyBounds]_vars

(* -------------------- one call of mandelbrot_vector -------------------- *)

KGrid == {n * (Scale \div 2) : n \in -4 .. 4}

KSteps == {Scale \div 2, Scale}

KernelCall(x0, dx, y, max_iter) ==
    [pc       |-> "loop",
     st       |-> KernelStart(<<x0, x0 + dx, x0 + 2 * dx, x0 + 3 * dx>>, Splat(y)),
     max_iter |-> max_iter,
     left     |-> max_iter,
     frozen   |-> <<-1, -1, -1, -1>>]

InitKernel ==
    /\ HEIGHT = 1
    /\ NUM_THREADS = 1
    /\ vp = InitialViewport
    /\ pc = "off"
    /\ retTo = "loop"
    /\ lock = "free"
    /\ buf = [j \in 1 .. BufLen |-> 0]
    /\ bounds = <<WIDTH, HEIGHT>>
    /\ bands = <<>>
    /\ wpc = <<>>
    /\ wpos = <<>>
    /\ writers = [j \in 1 .. BufLen |-> {}]
    /\ before = buf
    /\ seen = [v \in Viewports |-> NoFrame]
    /\ inputs = {}
    /\ \E x0 \in KGrid, dx \in KSteps, y \in KGrid, max_iter \in 1 .. MaxIter :
          kern = KernelCall(x0, dx, y, max_iter)

Freeze(st, frozen, mask, k) ==
    IF frozen[k] = -1 /\ ~mask[k] THEN st.count[k] ELSE frozen[k]

\* mandelbrot_vector, lines 69-79: one turn of the loop that does not break.
KernelStep ==
    /\ kern.pc = "loop"
    /\ kern.left > 0
    /\ ~LoopBreaks(MaskOf(kern.st))
    /\ kern' = [kern EXCEPT
                   !.st     = KernelIter(kern.st),
                   !.left   = @ - 1,
                   !.frozen = LET m == MaskOf(kern.st)
                              IN  <<Freeze(kern.st, @, m, 1), Freeze(kern.st, @, m, 2),
                                    Freeze(kern.st, @, m, 3), Freeze(kern.st, @, m, 4)>>]
    /\ UNCHANGED renderVars

\* mandelbrot_vector, lines 69, 75, 80: the range is exhausted or the loop
\* breaks, and count is returned.
KernelExit ==
    /\ kern.pc = "loop"
    /\ ~(kern.left > 0 /\ ~LoopBreaks(MaskOf(kern.st)))
    /\ kern' = [kern EXCEPT !.pc = "done"]
    /\ UNCHANGED renderVars

NextKernel == KernelStep \/ KernelExit

SpecKernel == InitKernel /\ [][NextKernel]_vars

(* ======================================================================= *)
(*                               the claims                                *)
(* ======================================================================= *)

WorkerIds == DOMAIN wpc

WorkerActive(i) == wpc[i] \in {"ready", "running"}

\* The frame render_parallel leaves for T bands: pixel j's iteration count
\* and colour, from the band the pixel's row falls in.
FrameCount(T, j) ==
    LET r    == (j - 1) \div WIDTH
        c    == (j - 1) % WIDTH
        rpb  == RowsPerBand(HEIGHT, T)
        i    == r \div rpb
        band == BandOf(i, BufLen, <<WIDTH, HEIGHT>>, T, vp.ul, vp.lr)
    IN  GroupCounts(band.ul, band.lr, HEIGHT, T, r - rpb * i,
                    Lanes * (c \div Lanes))[(c % Lanes) + 1]

FramePixel(T, j) == PaletteColor(FrameCount(T, j))

\* C1: in a render pass every pixel a worker has written lies in that
\* worker's own band [i*rows_per_band*width, i*rows_per_band*width + band_len)
\* (i counted from 0), and no pixel has been written by two workers.
C1_WritesStayInOwnBand ==
    \A j \in 1 .. BufLen :
        /\ Cardinality(writers[j]) <= 1
        /\ \A i \in writers[j] :
              LET lo == (i - 1) * (bounds[2] \div NUM_THREADS + 1) * bounds[1]
              IN  lo <= j - 1 /\ j - 1 < lo + bands[i].len

C1_Witness ==
    /\ Len(wpc) >= 2
    /\ wpc[1] = "running" /\ wpc[2] = "running"
    /\ \E j1, j2 \in 1 .. BufLen : writers[j1] = {1} /\ writers[j2] = {2}

\* C2: when render_parallel has returned, every pixel 0 .. width*height-1 has
\* been written in that pass, whatever the height and the thread count.
C2_ReturnedPassCoversBuffer ==
    pc = "returned" => \A j \in 1 .. bounds[1] * bounds[2] : writers[j] # {}

C2_Witness ==
    /\ pc = "returned"
    /\ NUM_THREADS > 1
    /\ HEIGHT % NUM_THREADS # 0
    /\ Len(bands) >= 2
    /\ bands[Len(bands)].bounds[2] < bands[1].bounds[2]

\* C3: while a band worker is still running the pass holds the buffer lock
\* and render_parallel has not returned, so no other pass has started and
\* the display read happens only with every band finished.
C3_NoDisplayWhileWorkersRun ==
    /\ (\E i \in WorkerIds : WorkerActive(i))
          => lock = "render_parallel" /\ pc \in {"spawn", "join"}
    /\ pc \in {"display", "returned"}
          => /\ \A i \in WorkerIds : wpc[i] = "done"
             /\ \A j \in 1 .. BufLen : writers[j] # {}

C3_Witness ==
    /\ pc = "join"
    /\ retTo = "display"
    /\ \E i \in WorkerIds : wpc[i] = "running" /\ wpos[i] > 0
    /\ \E i \in WorkerIds : wpc[i] = "done"
    /\ \E j \in 1 .. BufLen : writers[j] = {}

\* C4: the buffer a pass leaves does not depend on the number of bands: it
\* is the buffer the same viewport gives with one band.
C4_BandCountDoesNotMatter ==
    pc = "returned" => \A j \in 1 .. BufLen : buf[j] = FramePixel(1, j)

\* C6: a pixel whose point is bounded (its count reached LIMIT) is stored as
\* the sentinel colour 0.
C6_BoundedIsBlack ==
    \A j \in 1 .. BufLen :
        (writers[j] # {} /\ FrameCount(NUM_THREADS, j) = LIMIT) => buf[j] = 0

\* C7: a pass whose bounds do not match the buffer's length writes no pixel.
C7_MismatchWritesNothing ==
    bounds[1] * bounds[2] # BufLen => \A j \in 1 .. BufLen : writers[j] = {}

\* C8: a completed pass of a viewport leaves the frame that viewport's first
\* completed pass left, whatever the workers' order and whatever the buffer
\* held before.
C8_SameViewportSameFrame ==
    (pc = "returned" /\ seen[vp] # NoFrame) => buf = seen[vp]

C8_Witness ==
    /\ pc = "returned"
    /\ seen[vp] # NoFrame
    /\ before # buf
    /\ before[1] = OverlayColor
    /\ Len(bands) >= 2

\* C10: rows_per_band is height / T + 1; ceil(height / rows_per_band) workers
\* are spawned, at most T; every band but the last has rows_per_band rows,
\* the last has 1 .. rows_per_band, and no band is empty.
C10_BandPartition ==
    pc \in {"join", "returned"} =>
        LET rpb == HEIGHT \div NUM_THREADS + 1
            n   == Len(bands)
        IN  /\ n = (HEIGHT + rpb - 1) \div rpb
            /\ n <= NUM_THREADS
            /\ n = Len(wpc)
            /\ \A i \in 1 .. n - 1 : bands[i].bounds[2] = rpb
            /\ bands[n].bounds[2] >= 1 /\ bands[n].bounds[2] <= rpb
            /\ \A i \in 1 .. n : bands[i].len > 0 /\ bands[i].start = (i - 1) * rpb * WIDTH

C10_Witness ==
    /\ pc = "join"
    /\ HEIGHT % NUM_THREADS # 0
    /\ Len(bands) >= 2
    /\ bands[Len(bands)].bounds[2] < HEIGHT \div NUM_THREADS + 1

(* ----------------------- the kernel's claims --------------------------- *)

\* The scalar kernel as the specification states it: z starts at 0,
\* z <- z^2 + c up to limit times, escaped at the first iteration i with
\* |z|^2 > 4.0, bounded when the limit is reached first.
Bounded == <<"bounded", 0>>

Escaped(i) == <<"escaped", i>>

RECURSIVE ScalarLoop(_, _, _, _, _, _)
ScalarLoop(zx, zy, cx, cy, i, limit) ==
    IF i = limit THEN Bounded
    ELSE LET nx == SAdd(SSub(SMul(zx, zx), SMul(zy, zy)), cx)
             ny == SAdd(SAdd(SMul(zx, zy), SMul(zy, zx)), cy)
         IN  IF Gt(SAdd(SMul(nx, nx), SMul(ny, ny)), Four) THEN Escaped(i)
             ELSE ScalarLoop(nx, ny, cx, cy, i + 1, limit)

ScalarKernel(cx, cy, limit) == ScalarLoop(0, 0, cx, cy, 0, limit)

\* A lane's count read as an IterationResult.
LaneVerdict(count, limit) == IF count < limit THEN Escaped(count) ELSE Bounded

\* The iterations one point takes on its own before its first escape,
\* capped at max_iter.
RECURSIVE SoloCount(_, _, _, _, _)
SoloCount(x, y, cx, cy, left) ==
    IF left = 0 \/ ~LaneMask(x, y) THEN 0
    ELSE 1 + SoloCount(SAdd(SSub(SMul(x, x), SMul(y, y)), cx),
                       SAdd(SAdd(SMul(x, y), SMul(x, y)), cy), cx, cy, left - 1)

KernelRuns == kern.pc \in {"loop", "done"}

\* C5: each lane of mandelbrot_vector gives the verdict of the scalar kernel
\* for the same point and limit.
C5_VectorAgreesWithScalar ==
    kern.pc = "done" =>
        \A k \in LaneIdx :
            LaneVerdict(kern.st.count[k], kern.max_iter)
                = ScalarKernel(kern.st.c_x[k], kern.st.c_y[k], kern.max_iter)

====
